---- MODULE Spec2Model ----
(***************************************************************************)
(* Model of the Artifacts page (src/app/page.tsx) and of its generation    *)
(* endpoint (src/unnamed/part_000, the /api/generateCode route).           *)
(*                                                                         *)
(* Text is a sequence of tokens (strings).  The empty text is <<>>.        *)
(*                                                                         *)
(* The page is a React component: every render defines createApp, fixCode, *)
(* checkForErrors and autoFixError anew, closed over the state values of   *)
(* that render.  A timer callback keeps the closure of the render that     *)
(* created it, so the model stores that render's values ("env") with every *)
(* pending timer and every request in flight.  Updates written as          *)
(* setX(prev => ...) read the current state; all other reads inside a      *)
(* handler read env.                                                       *)
(***************************************************************************)
EXTENDS Integers, Sequences, FiniteSets, TLC

\* ------------------------------------------------------------------ bounds
MaxRequests == 3      \* generation requests dispatched in one behaviour
MaxInFlight == 2      \* requests in flight at the same time
MaxFrags    == 2      \* fragment records of one response stream
MaxTimers   == 1      \* pending delayed error checks
\* The bounds of BudgetSpec, which follows one request at a time through more
\* rounds of automatic fixes than the budget allows.
BudgetRequests == 5
BudgetInFlight == 1
BudgetFrags    == 1
BudgetTimers   == 1
\* The bounds of DecoderSpec: lines of one response, cuts of the transport.
MaxLines == 3
MaxCuts  == 2
\* The bound of EndpointSpec: deltas of one completion.
MaxDeltas == 4

\* ------------------------------------------------------------- text values
Empty == <<>>

Prompts    == { <<"build a counter">> }
FixPrompts == { <<"make it blue">> }
\* The text of the k-th fragment of a response, and the cleaned texts.
FragNames  == <<"a", "b", "c", "d">>
FragText(k) == <<FragNames[k]>>
CleanTexts == { <<>>, <<"z">> }

\* ---------------------------------------------------------------- state
VARIABLES
  generatedCode,    \* page.tsx:43
  isGenerating,     \* page.tsx:44
  messages,         \* page.tsx:45
  showFixInput,     \* page.tsx:47
  hasError,         \* page.tsx:48
  isAutoFixing,     \* page.tsx:49
  autoFixAttempts,  \* page.tsx:50
  lastError,        \* page.tsx:51
  requests,         \* createApp / fixCode calls suspended at an await
  timers,           \* pending setTimeout(checkForErrors, 3000), oldest first
  interval,         \* the setInterval of the effect: <<>> or <<env>>
  nRequests,        \* number of requests dispatched so far
  ev,               \* the error check just run (history variable)
  \* readStream (page.tsx:12-39)
  chunks,           \* what reader.read() is still to return, as bytes
  pending,          \* bytes the TextDecoder holds back (stream: true)
  lines,            \* lines of the current chunk the for loop has not visited
  yielded,          \* the records yielded so far
  done,             \* the generator has returned
  sentLines,        \* the lines the response was made of (history variable)
  sentChunks,       \* the chunks it was cut into (history variable)
  \* POST (part_000:122-159)
  deltas,           \* the delta contents of the completion, in order
  nextDelta,        \* index of the delta the for-await loop is to see next
  buffer,           \* part_000:124
  enqueued,         \* records handed to controller.enqueue
  closed,           \* controller.close() was called
  errored,          \* the completion threw inside start(): the stream is errored
  doc,              \* WatcherSpec: the preview document one inspection finds
  extracted,        \* WatcherSpec: errorMessage (page.tsx:182) after the inspection
  inspected         \* WatcherSpec: the inspection has run

pageVars == <<generatedCode, isGenerating, messages, showFixInput,
              hasError, isAutoFixing, autoFixAttempts, lastError,
              requests, timers, interval, nRequests, ev>>
decoderVars == <<chunks, pending, lines, yielded, done, sentLines, sentChunks>>
endpointVars == <<deltas, nextDelta, buffer, enqueued, closed, errored>>
watcherVars == <<doc, extracted, inspected>>
vars == <<generatedCode, isGenerating, messages, showFixInput,
          hasError, isAutoFixing, autoFixAttempts, lastError,
          requests, timers, interval, nRequests, ev,
          chunks, pending, lines, yielded, done, sentLines, sentChunks,
          deltas, nextDelta, buffer, enqueued, closed, errored,
          doc, extracted, inspected>>

\* The state of the component (page.tsx:43-51).  fixPrompt (46) and prompt
\* (42) hold what the user has typed; they are read only by the submit that
\* follows the typing, so the typed text is the input of that submit.
Snap ==
  [ generatedCode   |-> generatedCode,
    isGenerating    |-> isGenerating,
    messages        |-> messages,
    showFixInput    |-> showFixInput,
    hasError        |-> hasError,
    isAutoFixing    |-> isAutoFixing,
    autoFixAttempts |-> autoFixAttempts,
    lastError       |-> lastError ]

InitialState ==
  [ generatedCode   |-> Empty,
    isGenerating    |-> FALSE,
    messages        |-> <<>>,
    showFixInput    |-> FALSE,
    hasError        |-> FALSE,
    isAutoFixing    |-> FALSE,
    autoFixAttempts |-> 0,
    lastError       |-> Empty ]

Message(role, content) == [role |-> role, content |-> content]

\* ev records the error check just run (which trigger ran it, the message it
\* extracted and whether it dispatched a fix), the transport failure just
\* caught and the click on Start Over.  Other steps leave NoEvent.
NoEvent == [op |-> "other", msg |-> Empty, dispatched |-> FALSE]
Event(op, msg, d) ==
  IF op \in {"delayedCheck", "intervalCheck", "fetchFail", "streamAbort",
            "startOver"}
    THEN [op |-> op, msg |-> msg, dispatched |-> d]
    ELSE NoEvent

PageInit ==
  /\ generatedCode = InitialState.generatedCode
  /\ isGenerating = InitialState.isGenerating
  /\ messages = InitialState.messages
  /\ showFixInput = InitialState.showFixInput
  /\ hasError = InitialState.hasError
  /\ isAutoFixing = InitialState.isAutoFixing
  /\ autoFixAttempts = InitialState.autoFixAttempts
  /\ lastError = InitialState.lastError
  /\ requests = <<>>
  /\ timers = <<>>
  /\ interval = <<>>
  /\ nRequests = 0
  /\ ev = NoEvent

\* No response is being decoded, no request is being served.
DecoderIdle ==
  /\ chunks = <<>> /\ pending = <<>> /\ lines = <<>>
  /\ yielded = <<>> /\ done = FALSE /\ sentLines = <<>> /\ sentChunks = <<>>

EndpointIdle ==
  /\ deltas = <<>> /\ nextDelta = 1
  /\ buffer = <<>> /\ enqueued = <<>> /\ closed = FALSE /\ errored = FALSE

\* No document is being inspected on its own.
WatcherIdle ==
  /\ doc = <<>> /\ extracted = Empty /\ inspected = FALSE

Init == PageInit /\ DecoderIdle /\ EndpointIdle /\ WatcherIdle

\* ------------------------------------------------- Error Watcher (inputs)
\* What one inspection of the preview iframe finds (page.tsx:176-180):
\* whether its document can be read, which phrases its body text holds,
\* what the two regular expressions capture, and the text of the elements
\* matching '.sp-error, .error-message, [data-error="true"]'.
Dom(acc, modText, modName, undefText, undefId, elems) ==
  [ accessible |-> acc, modText |-> modText, modName |-> modName,
    undefText |-> undefText, undefId |-> undefId, errorElements |-> elems ]

DomClean      == Dom(TRUE, FALSE, Empty, FALSE, Empty, <<>>)
DomModule     == Dom(TRUE, TRUE, <<"axios">>, FALSE, Empty, <<>>)
DomUndefined  == Dom(TRUE, FALSE, Empty, TRUE, <<"foo">>, <<>>)
DomElement    == Dom(TRUE, FALSE, Empty, FALSE, Empty, << <<"Boom">> >>)
DomNotFound   == Dom(TRUE, TRUE, Empty, TRUE, <<"foo">>, << <<"Boom">> >>)
DomRestricted == Dom(FALSE, TRUE, <<"axios">>, FALSE, Empty, <<>>)

DomInputs == { DomClean, DomModule, DomUndefined, DomElement, DomNotFound,
               DomRestricted }

ModulePhrase  == "Cannot find module '"
UndefPhrase   == " is not defined"

\* page.tsx:182-197
ExtractError(d) ==
  IF d.modText
    THEN IF d.modName # Empty THEN <<ModulePhrase>> \o d.modName \o <<"'">>
                              ELSE Empty
    ELSE IF d.undefText
      THEN IF d.undefId # Empty THEN d.undefId \o <<UndefPhrase>> ELSE Empty
      ELSE IF Len(d.errorElements) > 0
        THEN IF d.errorElements[1] # Empty THEN d.errorElements[1]
                                           ELSE <<"Unknown error">>
        ELSE Empty

Includes(text, tok) == \E i \in 1..Len(text) : text[i] = tok

\* page.tsx:217-228
AutoFixPrompt(errorMessage) ==
  IF Includes(errorMessage, ModulePhrase)
    THEN <<"Fix the import error for module \"">>
           \o SubSeq(errorMessage, 2, Len(errorMessage) - 1)
           \o <<"\". If this is an external library, remove it">>
    ELSE IF Includes(errorMessage, UndefPhrase)
      THEN <<"Fix the error: \"">> \o SubSeq(errorMessage, 1, Len(errorMessage) - 1)
             \o <<UndefPhrase, "\". Make sure to properly import or define">>
      ELSE <<"Fix this error: ">> \o errorMessage

\* The ceiling of automatic fixes (page.tsx:168 and 211).
AttemptBudget == 3

\* page.tsx:168
CheckGuard(env) ==
  ~(env.isGenerating \/ env.isAutoFixing
      \/ env.autoFixAttempts >= AttemptBudget)

\* page.tsx:171-172 with page.tsx:292 and 321: the Sandpack preview is in the
\* document only while the current generatedCode is non-empty.
IframePresent == generatedCode # Empty

\* page.tsx:199
NewError(env, errorMessage) ==
  errorMessage # Empty /\ errorMessage # env.lastError

\* page.tsx:211
AutoFixGuard(env) ==
  ~(env.isAutoFixing \/ env.autoFixAttempts >= AttemptBudget)

\* The documents an inspection can find: the body text holds a module
\* phrase or not, and then the expression of page.tsx:186 captures a name or
\* not; likewise for 'is not defined' and page.tsx:191; the error elements
\* are none, one with text, one without text, or two.
ModuleFindings == { <<FALSE, Empty>>, <<TRUE, Empty>>, <<TRUE, <<"axios">>>> }
UndefFindings  == { <<FALSE, Empty>>, <<TRUE, Empty>>, <<TRUE, <<"foo">>>> }
ElementFindings ==
  { <<>>, << <<"Boom">> >>, << Empty >>, << <<"Boom">>, <<"Bang">> >> }

Documents ==
  { Dom(acc, m[1], m[2], u[1], u[2], e) :
      acc \in BOOLEAN, m \in ModuleFindings, u \in UndefFindings,
      e \in ElementFindings }

\* page.tsx:174-197 and 204-206: one inspection of the document doc.
Inspect ==
  /\ ~inspected
  /\ extracted' = IF doc.accessible THEN ExtractError(doc) ELSE Empty
  /\ inspected' = TRUE
  /\ UNCHANGED <<doc, pageVars, decoderVars, endpointVars>>

WatcherInit ==
  /\ PageInit /\ DecoderIdle /\ EndpointIdle
  /\ doc \in Documents
  /\ extracted = Empty /\ inspected = FALSE

WatcherNext == Inspect

WatcherSpec == WatcherInit /\ [][WatcherNext]_vars

\* ------------------------------------------------------- stream records
\* One decoded record {choices: [{text, cleanedCode?}]} (part_000:130-133
\* and 150-153).
FragmentRec(t) == [text |-> t, cleaned |-> FALSE, cleanedCode |-> Empty]
FinalCleanedRec(c) == [text |-> Empty, cleaned |-> TRUE, cleanedCode |-> c]

\* Variants of Accumulate: the fragment goes in front of the buffer; a
\* cleaned text counts only when it is not empty.
AccumulatePrepend(fullCode, rec) ==
  IF rec.cleaned THEN rec.cleanedCode ELSE rec.text \o fullCode

AccumulateTruthy(fullCode, rec) ==
  IF rec.cleaned /\ rec.cleanedCode # Empty THEN rec.cleanedCode
                                             ELSE fullCode \o rec.text

\* page.tsx:79-85 (createApp) and 137-143 (fixCode)
Accumulate(fullCode, rec) ==
  IF rec.cleaned THEN rec.cleanedCode ELSE fullCode \o rec.text

\* A call of createApp or fixCode suspended at an await.
Request(kind, auto, env, promptText, sent) ==
  [ kind |-> kind, auto |-> auto, env |-> env, stage |-> "fetch",
    prompt |-> promptText, sentMessages |-> sent,
    currentCode |-> IF kind = "fix" THEN env.generatedCode ELSE Empty,
    fullCode |-> Empty, received |-> <<>> ]

\* The values of its render that a handler reads (page.tsx:109-126, 168,
\* 199, 211).
Closure(n) ==
  [ generatedCode   |-> n.generatedCode,
    isGenerating    |-> n.isGenerating,
    messages        |-> n.messages,
    isAutoFixing    |-> n.isAutoFixing,
    autoFixAttempts |-> n.autoFixAttempts,
    lastError       |-> n.lastError ]

Remove(s, i) == SubSeq(s, 1, i - 1) \o SubSeq(s, i + 1, Len(s))

MarkOld(tm) == [i \in 1..Len(tm) |-> [tm[i] EXCEPT !.old = TRUE]]

\* The render that follows a batch of state updates, with the effect of
\* page.tsx:234-242: when generatedCode, isGenerating or autoFixAttempts
\* changed, the interval is cleared and, if there is code and no generation,
\* created again with the closure of the new render.  A delayed check
\* pending at that moment (3000 ms) is due before the interval (5000 ms).
Commit(n, rq, tm, e) ==
  LET rearm == <<n.generatedCode, n.isGenerating, n.autoFixAttempts>>
                 # <<generatedCode, isGenerating, autoFixAttempts>>
      live  == n.generatedCode # Empty /\ ~n.isGenerating
  IN /\ generatedCode' = n.generatedCode
     /\ isGenerating' = n.isGenerating
     /\ messages' = n.messages
     /\ showFixInput' = n.showFixInput
     /\ hasError' = n.hasError
     /\ isAutoFixing' = n.isAutoFixing
     /\ autoFixAttempts' = n.autoFixAttempts
     /\ lastError' = n.lastError
     /\ requests' = rq
     /\ interval' = IF rearm THEN (IF live THEN <<Closure(n)>> ELSE <<>>) ELSE interval
     /\ timers' = IF rearm /\ live THEN MarkOld(tm) ELSE tm
     /\ nRequests' = IF Len(rq) > Len(requests) THEN nRequests + 1
                                                ELSE nRequests
     /\ ev' = e
     /\ UNCHANGED <<decoderVars, endpointVars, watcherVars>>

\* The bounds of one specification: b.requests requests per behaviour, of
\* which b.inFlight at a time; b.frags fragments per response; b.timers
\* pending delayed checks; the cleaned texts b.cleanTexts a response can
\* end with and the documents b.doms an inspection can find.
CanDispatch(b) ==
  /\ nRequests < b.requests
  /\ Len(requests) < b.inFlight

\* ------------------------------------------------ Generation Orchestrator
\* page.tsx:53-70: the prompt form is rendered while generatedCode is empty
\* (260) and cannot be submitted while isGenerating (269, 273).
CreateApp(b, p) ==
  /\ generatedCode = Empty /\ ~isGenerating
  /\ CanDispatch(b)
  /\ Commit([Snap EXCEPT !.generatedCode = Empty, !.isGenerating = TRUE,
                         !.messages = <<Message("user", p)>>,
                         !.showFixInput = FALSE, !.hasError = FALSE,
                         !.autoFixAttempts = 0],
            Append(requests, Request("generate", FALSE, Closure(Snap), p, <<>>)),
            timers, Event("createApp", Empty, TRUE))

\* page.tsx:107-128, the state updates and the request of fixCode run with
\* the closure env and the instruction fixRequest.
FixCodeStart(n, env, fixRequest) ==
  [n EXCEPT !.isGenerating = TRUE,
            !.messages = Append(env.messages, Message("user", fixRequest))]

FixRequest(env, fixRequest, auto) ==
  Request("fix", auto, env, fixRequest,
          Append(env.messages, Message("user", fixRequest)))

\* page.tsx:378-395: the fix form is rendered with the code when
\* showFixInput, and its button is disabled while isGenerating or while
\* fixPrompt is blank.
ManualFix(b, p) ==
  /\ generatedCode # Empty /\ showFixInput /\ ~isGenerating
  /\ CanDispatch(b)
  /\ Commit(FixCodeStart(Snap, Closure(Snap), p),
            Append(requests, FixRequest(Closure(Snap), p, FALSE)),
            timers, Event("manualFix", Empty, TRUE))

\* page.tsx:72 / 130: the response arrived with a success status.
FetchOk(i) ==
  /\ requests[i].stage = "fetch"
  /\ Commit(Snap, [requests EXCEPT ![i].stage = "stream"], timers,
            Event("fetchOk", Empty, FALSE))

\* Variant of Failed: the flags are cleared after the loop only, not in a
\* finally.
FailedNoFinally(n, r) == n

\* page.tsx:98-104 and 157-163: catch and finally.
Failed(n, r) ==
  IF r.kind = "fix"
    THEN [n EXCEPT !.isGenerating = FALSE, !.isAutoFixing = FALSE]
    ELSE [n EXCEPT !.isGenerating = FALSE]

\* fetch rejected, or the status was not a success (page.tsx:72-74, 130-132).
FetchFail(i) ==
  /\ requests[i].stage = "fetch"
  /\ Commit(Failed(Snap, requests[i]), Remove(requests, i), timers,
            Event("fetchFail", Empty, FALSE))

Cleaned(r) == \E k \in 1..Len(r.received) : r.received[k].cleaned

\* One record of the response stream reaches the loop of page.tsx:77-89 /
\* 135-147.  The endpoint sends fragments, then at most one record with
\* cleanedCode, then closes (part_000:126-157).
StreamRecord(b, i, rec) ==
  /\ requests[i].stage = "stream"
  /\ ~Cleaned(requests[i])
  /\ \/ rec.cleaned
     \/ /\ Len(requests[i].received) < b.frags
        /\ rec.text = FragText(Len(requests[i].received) + 1)
  /\ LET full == Accumulate(requests[i].fullCode, rec)
     IN Commit([Snap EXCEPT !.generatedCode = full],
               [requests EXCEPT ![i].fullCode = full,
                                ![i].received = Append(@, rec)],
               timers,
               Event(IF rec.cleaned THEN "finalCleaned" ELSE "fragment",
                     Empty, FALSE))

\* page.tsx:91-97 with 101-104, and 149-156 with 160-163.
Completed(n, r) ==
  LET withMsg == [n EXCEPT !.messages =
                     Append(n.messages, Message("assistant", r.fullCode))]
  IN IF r.kind = "fix"
       THEN [withMsg EXCEPT !.hasError = FALSE,
                            !.isGenerating = FALSE, !.isAutoFixing = FALSE]
       ELSE [withMsg EXCEPT !.showFixInput = TRUE, !.isGenerating = FALSE]

\* The stream is done: the loop ends and the delayed check is scheduled with
\* the checkForErrors of the closure the call started in.
StreamEnd(b, i) ==
  /\ requests[i].stage = "stream"
  /\ Len(timers) < b.timers
  /\ Commit(Completed(Snap, requests[i]), Remove(requests, i),
            Append(timers, [env |-> requests[i].env, old |-> FALSE]),
            Event("streamEnd", Empty, FALSE))

\* reader.read() rejects: the transport failed in mid-stream.
StreamAbort(i) ==
  /\ requests[i].stage = "stream"
  /\ Commit(Failed(Snap, requests[i]), Remove(requests, i), timers,
            Event("streamAbort", Empty, FALSE))

\* page.tsx:305-318
StartOver ==
  /\ generatedCode # Empty
  /\ Commit([Snap EXCEPT !.generatedCode = Empty, !.messages = <<>>,
                         !.showFixInput = FALSE,
                         !.hasError = FALSE, !.autoFixAttempts = 0,
                         !.lastError = Empty],
            requests, timers, Event("startOver", Empty, FALSE))

\* ------------------------------------- Error Watcher / Auto-Fix Controller
\* page.tsx:199-203 and 210-230: what checkForErrors of closure env does
\* to the state when it has extracted errorMessage.
Recorded(n, errorMessage) ==
  [n EXCEPT !.lastError = errorMessage, !.hasError = TRUE]

AutoFixStart(n, env, errorMessage) ==
  FixCodeStart([n EXCEPT !.isAutoFixing = TRUE,
                         !.autoFixAttempts = @ + 1],
               env, AutoFixPrompt(errorMessage))

\* page.tsx:167-207: checkForErrors of closure env inspects the document d.
CheckForErrors(b, env, d, tm, op) ==
  LET errorMessage == ExtractError(d)
      seen == CheckGuard(env) /\ IframePresent /\ d.accessible
                /\ NewError(env, errorMessage)
  IN IF seen /\ AutoFixGuard(env)
       THEN /\ CanDispatch(b)
            /\ Commit(AutoFixStart(Recorded(Snap, errorMessage), env,
                                   errorMessage),
                      Append(requests,
                             FixRequest(env, AutoFixPrompt(errorMessage), TRUE)),
                      tm, Event(op, errorMessage, TRUE))
       ELSE Commit(IF seen THEN Recorded(Snap, errorMessage) ELSE Snap,
                   requests, tm,
                   Event(op, IF IframePresent /\ d.accessible
                               THEN errorMessage ELSE Empty, FALSE))

\* page.tsx:95-97 and 154-156: the oldest delayed check fires.
DelayedCheck(b, d) ==
  /\ timers # <<>>
  /\ CheckForErrors(b, Head(timers).env, d, Tail(timers), "delayedCheck")

\* page.tsx:236-238: the interval fires; every delayed check that was due
\* before it has fired, and those pending now are due before its next tick.
IntervalCheck(b, d) ==
  /\ interval # <<>>
  /\ \A k \in 1..Len(timers) : ~timers[k].old
  /\ CheckForErrors(b, interval[1], d, MarkOld(timers), "intervalCheck")

Step(b) ==
  \/ \E p \in Prompts : CreateApp(b, p)
  \/ \E p \in FixPrompts : ManualFix(b, p)
  \/ \E i \in 1..Len(requests) : FetchOk(i)
  \/ \E i \in 1..Len(requests) : FetchFail(i)
  \/ \E i \in 1..Len(requests), k \in 1..b.frags :
        StreamRecord(b, i, FragmentRec(FragText(k)))
  \/ \E i \in 1..Len(requests), c \in b.cleanTexts :
        StreamRecord(b, i, FinalCleanedRec(c))
  \/ \E i \in 1..Len(requests) : StreamEnd(b, i)
  \/ \E i \in 1..Len(requests) : StreamAbort(i)
  \/ StartOver
  \/ \E d \in b.doms : DelayedCheck(b, d)
  \/ \E d \in b.doms : IntervalCheck(b, d)

\* The session: two requests can be in flight.
SessionBounds ==
  [ requests |-> MaxRequests, inFlight |-> MaxInFlight, frags |-> MaxFrags,
    timers |-> MaxTimers, cleanTexts |-> CleanTexts, doms |-> DomInputs ]

Next == Step(SessionBounds)

Spec == Init /\ [][Next]_vars

\* The automatic fix loop: one request at a time, five requests.
BudgetBounds ==
  [ requests |-> BudgetRequests, inFlight |-> BudgetInFlight,
    frags |-> BudgetFrags, timers |-> BudgetTimers,
    cleanTexts |-> { <<"z">> },
    doms |-> { DomClean, DomModule, DomUndefined } ]

BudgetNext == Step(BudgetBounds)

BudgetSpec == Init /\ [][BudgetNext]_vars

\* --------------------------------------------------------- Stream Decoder
\* The response body is a sequence of bytes.  "E1" "E2" are the two bytes of
\* one character outside ASCII (written "é"); every other byte is one
\* character.
NL == "\n"
Lead == "E1"
Cont == "E2"
Replacement == "U+FFFD"

\* The lines a response is made of (part_000:130-133 writes one record and
\* a newline): two records and a line that is no JSON.
LineA   == <<"{", "a", "}">>
LineE   == <<"{", Lead, Cont, "}">>
LineBad == <<"#">>
LinePalette == { LineA, LineE, LineBad }

LineSeqs == UNION { [1..n -> LinePalette] : n \in 1..MaxLines }

RECURSIVE Wire(_)
Wire(ls) ==
  IF ls = <<>> THEN <<>> ELSE Head(ls) \o <<NL>> \o Wire(Tail(ls))

RECURSIVE CutSets(_, _)
CutSets(n, k) ==
  IF k = 0 THEN { {} }
  ELSE LET prev == CutSets(n, k - 1)
       IN prev \cup { c \cup {a} : c \in prev, a \in 1..(n - 1) }

Min(S) == CHOOSE m \in S : \A x \in S : m <= x

\* The bytes w cut after each position of c.
RECURSIVE CutFrom(_, _, _)
CutFrom(w, start, c) ==
  IF c = {} THEN << SubSeq(w, start, Len(w)) >>
  ELSE << SubSeq(w, start, Min(c)) >> \o CutFrom(w, Min(c) + 1, c \ {Min(c)})

Chunkings(w) == { CutFrom(w, 1, c) : c \in CutSets(Len(w), MaxCuts) }

\* page.tsx:23, decoder.decode(value, {stream: true}) on the held bytes
\* followed by value: the text it returns, and the bytes it holds back (an
\* incomplete character at the end).
RECURSIVE DecodeFrom(_, _)
DecodeFrom(bytes, i) ==
  IF i > Len(bytes) THEN <<>>
  ELSE IF bytes[i] = Lead
    THEN IF i = Len(bytes) THEN <<>>
         ELSE IF bytes[i + 1] = Cont
           THEN <<"é">> \o DecodeFrom(bytes, i + 2)
           ELSE <<Replacement>> \o DecodeFrom(bytes, i + 1)
    ELSE IF bytes[i] = Cont
      THEN <<Replacement>> \o DecodeFrom(bytes, i + 1)
      ELSE <<bytes[i]>> \o DecodeFrom(bytes, i + 1)

Held(bytes) ==
  IF bytes # <<>> /\ bytes[Len(bytes)] = Lead THEN <<Lead>> ELSE <<>>

\* page.tsx:24, text.split('\n')
RECURSIVE Split(_)
Split(text) ==
  IF \E k \in 1..Len(text) : text[k] = NL
    THEN LET k == Min({j \in 1..Len(text) : text[j] = NL})
         IN << SubSeq(text, 1, k - 1) >> \o Split(SubSeq(text, k + 1, Len(text)))
    ELSE << text >>

Whitespace == {" ", NL}

\* page.tsx:27, line.trim()
RECURSIVE Trim(_)
Trim(t) ==
  IF t = <<>> THEN t
  ELSE IF Head(t) \in Whitespace THEN Trim(Tail(t))
  ELSE IF t[Len(t)] \in Whitespace THEN Trim(SubSeq(t, 1, Len(t) - 1))
  ELSE t

\* page.tsx:29, JSON.parse(line): the texts that are JSON, and their value.
Payloads == {"a", "é"}

IsJSON(line) ==
  LET t == Trim(line)
  IN Len(t) = 3 /\ t[1] = "{" /\ t[3] = "}" /\ t[2] \in Payloads

JSONParse(line) == FragmentRec(<< Trim(line)[2] >>)

\* Variant of AfterBadLine: the parse error leaves the generator.
AfterBadLineThrow(ls, cs) == [lines |-> <<>>, chunks |-> <<>>, done |-> TRUE]

\* page.tsx:28-32: the parse error is caught inside the loop body, which
\* goes on with the next line.
AfterBadLine(ls, cs) == [lines |-> Tail(ls), chunks |-> cs, done |-> FALSE]

\* page.tsx:20-24
ReadChunk ==
  /\ ~done /\ lines = <<>> /\ chunks # <<>>
  /\ lines' = Split(DecodeFrom(pending \o Head(chunks), 1))
  /\ pending' = Held(pending \o Head(chunks))
  /\ chunks' = Tail(chunks)
  /\ UNCHANGED <<yielded, done, sentLines, sentChunks, pageVars, endpointVars, watcherVars>>

\* page.tsx:26-27: a line that is blank after trim() is passed over.
SkipBlankLine ==
  /\ ~done /\ lines # <<>>
  /\ Trim(Head(lines)) = <<>>
  /\ lines' = Tail(lines)
  /\ UNCHANGED <<chunks, pending, yielded, done, sentLines, sentChunks,
                 pageVars, endpointVars, watcherVars>>

\* page.tsx:29
YieldLine ==
  /\ ~done /\ lines # <<>>
  /\ Trim(Head(lines)) # <<>> /\ IsJSON(Head(lines))
  /\ yielded' = Append(yielded, JSONParse(Head(lines)))
  /\ lines' = Tail(lines)
  /\ UNCHANGED <<chunks, pending, done, sentLines, sentChunks,
                 pageVars, endpointVars, watcherVars>>

\* page.tsx:30-32
DropBadLine ==
  /\ ~done /\ lines # <<>>
  /\ Trim(Head(lines)) # <<>> /\ ~IsJSON(Head(lines))
  /\ lines' = AfterBadLine(lines, chunks).lines
  /\ chunks' = AfterBadLine(lines, chunks).chunks
  /\ done' = AfterBadLine(lines, chunks).done
  /\ UNCHANGED <<pending, yielded, sentLines, sentChunks,
                 pageVars, endpointVars, watcherVars>>

\* page.tsx:21 and 36-38: the reader reports done.
ReadDone ==
  /\ ~done /\ lines = <<>> /\ chunks = <<>>
  /\ done' = TRUE
  /\ UNCHANGED <<chunks, pending, lines, yielded, sentLines, sentChunks,
                 pageVars, endpointVars, watcherVars>>

\* A response of up to MaxLines lines, cut anywhere into up to MaxCuts + 1
\* chunks, is about to be read.
DecoderInit ==
  /\ PageInit /\ EndpointIdle /\ WatcherIdle
  /\ sentLines \in LineSeqs
  /\ sentChunks \in Chunkings(Wire(sentLines))
  /\ chunks = sentChunks
  /\ pending = <<>> /\ lines = <<>> /\ yielded = <<>> /\ done = FALSE

DecoderNext ==
  \/ ReadChunk
  \/ SkipBlankLine
  \/ YieldLine
  \/ DropBadLine
  \/ ReadDone

DecoderSpec == DecoderInit /\ [][DecoderNext]_vars

\* -------------------------------------------------- endpoint: the modes
\* part_000:76-79: the body {prompt, messages, currentCode} of a request r
\* is a fix request when messages is not empty and currentCode is truthy.
IsFixRequest(r) == Len(r.sentMessages) > 0 /\ r.currentCode # Empty

\* part_000:7 and 50: the two system prompts.
SystemPrompt == <<"systemPrompt">>
FixInstructions == <<"fixPrompt">>

\* part_000:87-111: what is sent to the model for the request r.
ConversationMessages(r) ==
  IF IsFixRequest(r)
    THEN << Message("system", FixInstructions),
            Message("user", <<"Current code:">> \o r.currentCode
                               \o <<"User request:">> \o r.prompt) >>
    ELSE << Message("system", SystemPrompt),
            Message("user", r.prompt) >>

\* ----------------------------------------- endpoint: Completion Cleanup
\* Here a text is a sequence of characters.
\* The backtick character.
BT == "tick"
Fence == <<BT, BT, BT>>

TagTypescript == <<"t", "y", "p", "e", "s", "c", "r", "i", "p", "t">>
TagTsx        == <<"t", "s", "x">>
TagJsx        == <<"j", "s", "x">>
TagJavascript == <<"j", "a", "v", "a", "s", "c", "r", "i", "p", "t">>

\* The letters that occur in upper case in the deltas below.
LowerCase(c) ==
  CASE c = "T" -> "t" [] c = "S" -> "s" [] c = "X" -> "x" [] c = "J" -> "j"
    [] OTHER -> c

\* What the model can produce in one delta: a backtick, a fence, a tag in
\* some letter case, a newline, a blank, a character of code, nothing.
DeltaPalette ==
  { <<BT>>, Fence, <<"T", "S", "X">>, <<"J", "s", "x">>, TagTypescript,
    TagJavascript, <<NL>>, <<" ">>, <<"x">>, <<>> }

DeltaSeqs == UNION { [1..n -> DeltaPalette] : n \in 0..MaxDeltas }

\* text has pat at position i (letter case ignored when ci).
MatchesAt(text, i, pat, ci) ==
  /\ i + Len(pat) - 1 <= Len(text)
  /\ \A k \in 1..Len(pat) :
        IF ci THEN LowerCase(text[i + k - 1]) = LowerCase(pat[k])
              ELSE text[i + k - 1] = pat[k]

\* part_000:139, buffer.includes(fence)
HasFenceAlways(text) == TRUE

HasFence(text) == \E i \in 1..Len(text) : MatchesAt(text, i, Fence, FALSE)

\* Variant of RemoveFence: letter case always counts.
RECURSIVE RemoveFenceExact(_, _, _)
RemoveFenceExact(text, tag, ci) ==
  IF text = <<>> THEN <<>>
  ELSE IF MatchesAt(text, 1, Fence \o tag, FALSE)
    THEN LET rest == SubSeq(text, 4 + Len(tag), Len(text))
         IN RemoveFenceExact(IF rest # <<>> /\ Head(rest) = NL
                               THEN Tail(rest) ELSE rest, tag, ci)
    ELSE <<Head(text)>> \o RemoveFenceExact(Tail(text), tag, ci)

\* part_000:142-146, text.replace(/<fence><tag>\n?/g, ''), with flag i when ci:
\* every match, found from left to right, is removed with the newline that
\* follows it.
RECURSIVE RemoveFence(_, _, _)
RemoveFence(text, tag, ci) ==
  IF text = <<>> THEN <<>>
  ELSE IF MatchesAt(text, 1, Fence \o tag, ci)
    THEN LET rest == SubSeq(text, 4 + Len(tag), Len(text))
         IN RemoveFence(IF rest # <<>> /\ Head(rest) = NL
                          THEN Tail(rest) ELSE rest, tag, ci)
    ELSE <<Head(text)>> \o RemoveFence(Tail(text), tag, ci)

\* part_000:141-147
Clean(text) ==
  Trim(RemoveFence(
         RemoveFence(
           RemoveFence(
             RemoveFence(
               RemoveFence(text, TagTypescript, TRUE),
               TagTsx, TRUE),
             TagJsx, TRUE),
           TagJavascript, TRUE),
         <<>>, FALSE))

\* Variant of ForwardDelta: a delta without content is forwarded too.
ForwardDeltaAll ==
  /\ ~closed /\ ~errored /\ nextDelta <= Len(deltas)
  /\ buffer' = buffer \o deltas[nextDelta]
  /\ enqueued' = Append(enqueued, FragmentRec(deltas[nextDelta]))
  /\ nextDelta' = nextDelta + 1
  /\ UNCHANGED <<deltas, closed, errored, pageVars, decoderVars, watcherVars>>

\* part_000:126-136: one chunk of the completion.
ForwardDelta ==
  /\ ~closed /\ ~errored /\ nextDelta <= Len(deltas)
  /\ LET text == deltas[nextDelta]
     IN IF text # <<>>
          THEN /\ buffer' = buffer \o text
               /\ enqueued' = Append(enqueued, FragmentRec(text))
          ELSE UNCHANGED <<buffer, enqueued>>
  /\ nextDelta' = nextDelta + 1
  /\ UNCHANGED <<deltas, closed, errored, pageVars, decoderVars, watcherVars>>

\* part_000:138-157: the completion has ended.
CloseStream ==
  /\ ~closed /\ ~errored /\ nextDelta > Len(deltas)
  /\ enqueued' = IF HasFence(buffer)
                   THEN Append(enqueued, FinalCleanedRec(Clean(buffer)))
                   ELSE enqueued
  /\ closed' = TRUE
  /\ UNCHANGED <<deltas, nextDelta, buffer, errored, pageVars, decoderVars, watcherVars>>

\* part_000:126: the completion throws while it is iterated; start() has no
\* handler, so the stream is errored with what was enqueued so far.
UpstreamError ==
  /\ ~closed /\ ~errored
  /\ errored' = TRUE
  /\ UNCHANGED <<deltas, nextDelta, buffer, enqueued, closed, pageVars,
                 decoderVars, watcherVars>>

\* A completion of up to MaxDeltas deltas is about to be streamed.
EndpointInit ==
  /\ PageInit /\ DecoderIdle /\ WatcherIdle
  /\ deltas \in DeltaSeqs
  /\ nextDelta = 1 /\ buffer = <<>> /\ enqueued = <<>>
  /\ closed = FALSE /\ errored = FALSE

EndpointNext ==
  \/ ForwardDelta
  \/ CloseStream
  \/ UpstreamError

EndpointSpec == EndpointInit /\ [][EndpointNext]_vars

\* ------------------------------------------------------------------ claims
Checks == {"delayedCheck", "intervalCheck"}

RECURSIVE ConcatAll(_)
ConcatAll(ss) == IF ss = <<>> THEN <<>> ELSE Head(ss) \o ConcatAll(Tail(ss))

\* The concatenation of the texts of the records recs, in order.
RECURSIVE ConcatTexts(_)
ConcatTexts(recs) ==
  IF recs = <<>> THEN Empty
  ELSE ConcatTexts(SubSeq(recs, 1, Len(recs) - 1)) \o recs[Len(recs)].text

\* The step completes request i successfully: it leaves the list and an
\* assistant message, its final artifact, is appended.
Completes(i) ==
  /\ requests' = Remove(requests, i)
  /\ Len(messages') = Len(messages) + 1
  /\ SubSeq(messages', 1, Len(messages)) = messages
  /\ messages'[Len(messages')].role = "assistant"

FinalArtifact == messages'[Len(messages')].content

\* The step hands one more record to request i.
Receives(i) ==
  /\ Len(requests') = Len(requests)
  /\ requests'[i].received # requests[i].received

\* C1: between session restarts at most AttemptBudget automatic fixes are
\* dispatched; autoFixAttempts counts them, so it never exceeds the budget
\* and no check dispatches once it has reached it.
C1_BudgetRespected == autoFixAttempts <= AttemptBudget

\* C2: at most one generation request (generate, manual fix, automatic fix)
\* is in flight at any time.
C2_OneInFlight == Len(requests) <= 1

\* C3: a check that runs with nothing in flight and budget remaining
\* dispatches a fix exactly when the message it extracted is not empty and
\* differs from the last recorded one, whichever timer fired it.
C3_Dedup ==
  [][ ( /\ ev'.op \in Checks
        /\ requests = <<>> /\ ~isGenerating /\ ~isAutoFixing
        /\ autoFixAttempts < AttemptBudget )
      => (ev'.dispatched <=> (ev'.msg # Empty /\ ev'.msg # lastError)) ]_vars

\* C4: while no cleaned record has arrived, the buffer of a generation is
\* the concatenation of the fragments it has received, in arrival order;
\* each fragment publishes that concatenation as the code, and a generation
\* that ends without a cleaned record hands it over as its final artifact.
ConcatBuffer(r) == ~Cleaned(r) => r.fullCode = ConcatTexts(r.received)

C4_Concatenation ==
  /\ [](\A i \in 1..Len(requests) : ConcatBuffer(requests[i]))
  /\ [][ \A i \in 1..Len(requests) :
            /\ (Receives(i) /\ ~Cleaned(requests'[i]))
                 => generatedCode' = ConcatTexts(requests'[i].received)
            /\ (Completes(i) /\ ~Cleaned(requests[i]))
                 => FinalArtifact = ConcatTexts(requests[i].received) ]_vars

C4_Witness ==
  /\ ev = NoEvent
  /\ requests = <<>>
  /\ generatedCode = <<"a", "b">>
  /\ messages # <<>>
  /\ messages[Len(messages)] = Message("assistant", <<"a", "b">>)

\* C5: a cleaned record replaces the buffer of its generation by its text,
\* whatever was accumulated and also when the text is empty; that text is
\* published as the code and is the final artifact of the generation.
CleanedBuffer(r) ==
  Cleaned(r) => r.fullCode = r.received[Len(r.received)].cleanedCode

C5_CleanedReplaces ==
  /\ [](\A i \in 1..Len(requests) : CleanedBuffer(requests[i]))
  /\ [][ \A i \in 1..Len(requests) :
            /\ (Receives(i) /\ Cleaned(requests'[i]))
                 => generatedCode'
                      = requests'[i].received[Len(requests'[i].received)].cleanedCode
            /\ (Completes(i) /\ Cleaned(requests[i]))
                 => FinalArtifact
                      = requests[i].received[Len(requests[i].received)].cleanedCode
        ]_vars

C5_Witness ==
  \E i \in 1..Len(requests) :
    /\ Len(requests[i].received) = MaxFrags + 1
    /\ requests[i].received[MaxFrags + 1] = FinalCleanedRec(Empty)
    /\ requests[i].fullCode = Empty
    /\ generatedCode = Empty

\* C6: whenever a generation in flight has received a record, the code is
\* what some such generation has assembled: the concatenation of its
\* fragments so far or, after its cleaned record, the cleaned text.
Assembled(r) ==
  IF Cleaned(r) THEN r.received[Len(r.received)].cleanedCode
                ELSE ConcatTexts(r.received)

C6_NeverMixture ==
  (\E i \in 1..Len(requests) : requests[i].received # <<>>)
    => \E i \in 1..Len(requests) :
         /\ requests[i].received # <<>>
         /\ generatedCode = Assembled(requests[i])

\* The records of those of the sent lines ls (bytes) whose text is JSON,
\* in order.
RECURSIVE RecordsOf(_)
RecordsOf(ls) ==
  IF ls = <<>> THEN <<>>
  ELSE (IF IsJSON(DecodeFrom(Head(ls), 1))
          THEN <<JSONParse(DecodeFrom(Head(ls), 1))>> ELSE <<>>)
         \o RecordsOf(Tail(ls))

\* The positions after which the transport cut the response.
RECURSIVE CutPositions(_)
CutPositions(cs) ==
  IF Len(cs) <= 1 THEN {}
  ELSE LET rest == CutPositions(SubSeq(cs, 1, Len(cs) - 1))
       IN rest \cup { Len(ConcatAll(SubSeq(cs, 1, Len(cs) - 1))) }

\* Sent line k lies on the wire from FirstByte(k) to LastByte(k); a cut
\* after a byte in FirstByte(k)..LastByte(k)-1 splits it.
FirstByte(k) == Len(Wire(SubSeq(sentLines, 1, k - 1))) + 1
LastByte(k) == FirstByte(k) + Len(sentLines[k]) - 1
IsSplit(k) ==
  \E c \in CutPositions(sentChunks) : FirstByte(k) <= c /\ c < LastByte(k)

RECURSIVE Unsplit(_)
Unsplit(k) ==
  IF k > Len(sentLines) THEN <<>>
  ELSE (IF IsSplit(k) THEN <<>> ELSE <<sentLines[k]>>) \o Unsplit(k + 1)

\* C7: a line that is no JSON never ends the decoding: the decoder reads
\* the response to its end, and what it has yielded then is exactly the
\* record of every JSON line the transport left whole, in order (the lines
\* that are no JSON, and only those, are passed over).
C7_SkipsBadLine ==
  done => /\ chunks = <<>> /\ lines = <<>>
          /\ yielded = RecordsOf(Unsplit(1))

C7_Witness ==
  /\ done
  /\ sentLines = <<LineBad, LineA, LineE>>
  /\ sentChunks = << LineBad \o <<NL>> \o LineA \o <<NL>>, LineE \o <<NL>> >>
  /\ yielded = << FragmentRec(<<"a">>), FragmentRec(<<"é">>) >>

\* C8: the records yielded do not depend on where the transport cuts: at
\* the end they are the records of all JSON lines sent.
C8_CutIndependent == done => yielded = RecordsOf(sentLines)

\* The raw output of the completion, and what stands as the code when the
\* stream is closed: the cleaned text if a cleaned record was sent, else
\* the raw output.
RawOutput == ConcatAll(deltas)

CleanedSent == enqueued # <<>> /\ enqueued[Len(enqueued)].cleaned

FinalText ==
  IF CleanedSent THEN enqueued[Len(enqueued)].cleanedCode ELSE RawOutput

\* Three backticks in a row at position i of text.
FenceAt(text, i) ==
  i + 2 <= Len(text) /\ text[i] = BT /\ text[i + 1] = BT /\ text[i + 2] = BT

ContainsFence(text) == \E i \in 1..Len(text) : FenceAt(text, i)

Trimmed(text) ==
  text = <<>> \/ (text[1] \notin Whitespace /\ text[Len(text)] \notin Whitespace)

\* The deltas that are not empty, and those that are a language tag.
Pieces == SelectSeq(deltas, LAMBDA d : d # <<>>)

IsTag(d) ==
  \E tag \in {TagTypescript, TagTsx, TagJsx, TagJavascript} :
    Len(d) = Len(tag) /\ MatchesAt(d, 1, tag, TRUE)

\* The raw output is made of fences, each followed at once by nothing or a
\* recognized tag, and of text without backticks that keeps the fences
\* apart.
WellFormed ==
  \A i \in 1..Len(Pieces) :
    /\ Pieces[i] # <<BT>>
    /\ IsTag(Pieces[i]) => (i > 1 /\ Pieces[i - 1] = Fence)
    /\ (Pieces[i] = Fence /\ i > 1) =>
         (Pieces[i - 1] # Fence /\ ~IsTag(Pieces[i - 1]))

\* Piece i is a fence, its tag, or the newline that follows them.
FencePart(i) ==
  \/ Pieces[i] = Fence
  \/ IsTag(Pieces[i])
  \/ /\ Pieces[i] = <<NL>>
     /\ i > 1
     /\ (Pieces[i - 1] = Fence \/ IsTag(Pieces[i - 1]))

RECURSIVE WithoutFences(_)
WithoutFences(i) ==
  IF i = 0 THEN <<>>
  ELSE WithoutFences(i - 1) \o (IF FencePart(i) THEN <<>> ELSE Pieces[i])

\* C9: when the raw output holds a fence, a cleaned record is sent, and its
\* text holds no three backticks in a row and neither starts nor ends with
\* whitespace; when the raw output is well formed, it is the raw output
\* without its fences, their tags (in any letter case) and the newline after
\* them, trimmed.
C9_FencesRemoved ==
  (closed /\ ContainsFence(RawOutput)) =>
    /\ CleanedSent
    /\ ~ContainsFence(FinalText)
    /\ Trimmed(FinalText)
    /\ WellFormed => FinalText = Trim(WithoutFences(Len(Pieces)))

C9_Witness ==
  /\ closed
  /\ deltas = <<Fence, <<"T", "S", "X">>, <<NL>>, <<"x">>>>
  /\ CleanedSent
  /\ FinalText = <<"x">>

\* part_000:139-155: the cleanup step as a function of the raw output.
CleanupStep(text) == IF HasFence(text) THEN Clean(text) ELSE text

\* C10: when the raw output holds no fence, no cleaned record is sent and the
\* raw output stands; the cleanup step applied to the text that stands gives
\* that text again, and cleaning twice is cleaning once.
C10_Idempotent ==
  closed =>
    /\ ~ContainsFence(RawOutput) => (~CleanedSent /\ FinalText = RawOutput)
    /\ FinalText = CleanupStep(RawOutput)
    /\ CleanupStep(FinalText) = FinalText
    /\ Clean(Clean(RawOutput)) = Clean(RawOutput)

C10_Witness ==
  /\ closed
  /\ deltas = <<<<" ">>, <<"x">>, <<BT>>, <<NL>>>>
  /\ ~CleanedSent
  /\ FinalText = <<" ", "x", BT, NL>>

\* The records of the response that carry cleanedCode (their positions),
\* and the fragment records, in order.
CleanedAt == { k \in 1..Len(enqueued) : enqueued[k].cleaned }

Forwarded == SelectSeq(enqueued, LAMBDA rec : ~rec.cleaned)

\* The deltas the loop has seen that are not empty, as fragment records.
SeenPieces ==
  LET seen == SelectSeq(SubSeq(deltas, 1, nextDelta - 1), LAMBDA d : d # <<>>)
  IN [k \in 1..Len(seen) |-> FragmentRec(seen[k])]

\* C11: in every response stream at most one record carries cleanedCode; it
\* is the last record, it ends the stream and its text is empty; the
\* fragment records are the non-empty deltas seen so far, one each, in
\* order; and a stream that is closed carries the cleaned record exactly
\* when the concatenation of its fragments holds a fence.
C11_OneFinalRecord ==
  /\ Cardinality(CleanedAt) <= 1
  /\ \A k \in CleanedAt :
       /\ k = Len(enqueued)
       /\ closed
       /\ enqueued[k].text = Empty
  /\ Forwarded = SeenPieces
  /\ closed => /\ nextDelta = Len(deltas) + 1
               /\ (CleanedAt # {} <=> ContainsFence(ConcatTexts(Forwarded)))

C11_Witness ==
  /\ closed
  /\ deltas = << <<"x">>, <<>>, Fence, <<"x">> >>
  /\ enqueued = << FragmentRec(<<"x">>), FragmentRec(Fence),
                   FragmentRec(<<"x">>), FinalCleanedRec(<<"x", "x">>) >>

\* The step dispatches a fix request (it is the last of the list then).
DispatchesFix ==
  /\ Len(requests') = Len(requests) + 1
  /\ requests'[Len(requests')].kind = "fix"

Dispatched == requests'[Len(requests')]

\* C12: every fix request, manual or automatic, carries as currentCode the
\* code as it stands when the request is dispatched, which is not empty,
\* and as messages the transcript as it stands followed by the instruction.
C12_CurrentContext ==
  [][ DispatchesFix =>
        /\ Dispatched.currentCode = generatedCode
        /\ Dispatched.currentCode # Empty
        /\ Dispatched.sentMessages
             = Append(messages, Message("user", Dispatched.prompt)) ]_vars

IsPrefix(s, t) == Len(s) <= Len(t) /\ SubSeq(t, 1, Len(s)) = s

\* The step is the submit of the prompt form: a generate request is
\* dispatched.
StartsGenerate ==
  /\ Len(requests') = Len(requests) + 1
  /\ requests'[Len(requests')].kind = "generate"

\* The step is a click on Start Over: code is shown, and the click empties
\* code and transcript without touching a request or a timer.
StartsOver ==
  /\ generatedCode # Empty /\ generatedCode' = Empty
  /\ messages' = <<>> /\ lastError' = Empty /\ autoFixAttempts' = 0
  /\ requests' = requests /\ timers' = timers

\* C13: between session restarts the transcript is append-only: every step
\* other than the start of a generate and start over leaves the previous
\* transcript as a prefix of the new one.
C13_AppendOnly ==
  [][ (~StartsGenerate /\ ~StartsOver) => IsPrefix(messages, messages') ]_vars

\* C14: when a manual fix completes successfully the automatic fix state is
\* reset: autoFixAttempts is 0 and isAutoFixing is false after the step.
C14_ManualFixResets ==
  [][ (\E i \in 1..Len(requests) :
          /\ Completes(i)
          /\ requests[i].kind = "fix" /\ ~requests[i].auto)
      => (autoFixAttempts' = 0 /\ ~isAutoFixing') ]_vars

Failures == {"fetchFail", "streamAbort"}

\* C15: the step in which a generate or a fix fails in transport (fetch
\* rejected, status not a success, stream broken) takes the request out of
\* flight with isGenerating cleared, appends no message and schedules no
\* delayed check; when the request is a fix that had received no record,
\* the code is left as it was.
C15_FailureIsClean ==
  [][ ev'.op \in Failures =>
        \E i \in 1..Len(requests) :
          /\ requests' = Remove(requests, i)
          /\ ~isGenerating'
          /\ messages' = messages
          /\ Len(timers') = Len(timers)
          /\ (requests[i].kind = "fix" /\ requests[i].received = <<>>)
               => generatedCode' = generatedCode ]_vars

C15_Witness ==
  /\ ev.op = "fetchFail"
  /\ requests = <<>> /\ timers = <<>>
  /\ ~isGenerating
  /\ generatedCode = <<"a", "b">>
  /\ messages = << Message("user", <<"build a counter">>),
                   Message("assistant", <<"a", "b">>),
                   Message("user", <<"make it blue">>) >>

\* C16: a click on Start Over, in whatever state the button is shown,
\* leaves the session empty: no code, no transcript, autoFixAttempts 0,
\* isAutoFixing false, no recorded error.
C16_StartOverEmpties ==
  [][ ev'.op = "startOver" =>
        /\ generatedCode' = Empty
        /\ messages' = <<>>
        /\ autoFixAttempts' = 0
        /\ ~isAutoFixing'
        /\ ~hasError' /\ lastError' = Empty ]_vars

\* The message of each signature on its own: the missing module, the
\* undefined reference, the first error element.
ModuleMessage(d) ==
  IF d.modText /\ d.modName # Empty
    THEN <<ModulePhrase>> \o d.modName \o <<"'">> ELSE Empty

UndefMessage(d) ==
  IF d.undefText /\ d.undefId # Empty
    THEN d.undefId \o <<UndefPhrase>> ELSE Empty

ElementMessage(d) ==
  IF Len(d.errorElements) = 0 THEN Empty
  ELSE IF d.errorElements[1] # Empty THEN d.errorElements[1]
  ELSE <<"Unknown error">>

FirstNonEmpty(d) ==
  IF ModuleMessage(d) # Empty THEN ModuleMessage(d)
  ELSE IF UndefMessage(d) # Empty THEN UndefMessage(d)
  ELSE ElementMessage(d)

\* C17: an inspection of a readable document reports the message of the
\* first signature, in the order module, undefined reference, error
\* element, that yields a non-empty message.
C17_FirstNonEmptyWins ==
  (inspected /\ doc.accessible) => extracted = FirstNonEmpty(doc)

\* An automatic fix is in flight.
AutoFixInFlight ==
  \E i \in 1..Len(requests) : requests[i].kind = "fix" /\ requests[i].auto

\* C18: isAutoFixing is true exactly while an automatic fix is in flight; it
\* becomes true only in the step that dispatches an automatic fix and
\* increments autoFixAttempts, and a step in which an automatic fix fails
\* leaves autoFixAttempts as it is.
C18_InProgressExactly ==
  /\ [](isAutoFixing <=> AutoFixInFlight)
  /\ [][ /\ (~isAutoFixing /\ isAutoFixing')
              => /\ DispatchesFix /\ Dispatched.auto
                 /\ autoFixAttempts' = autoFixAttempts + 1
         /\ (ev'.op \in Failures /\ AutoFixInFlight)
              => autoFixAttempts' = autoFixAttempts ]_vars

\* C19: when a fix completes successfully the recorded error state is
\* cleared: hasError is false and lastError is empty after the step, so the
\* same message observed again is new.
C19_FixClearsLastError ==
  [][ (\E i \in 1..Len(requests) : Completes(i) /\ requests[i].kind = "fix")
      => (~hasError' /\ lastError' = Empty) ]_vars

\* C20: the endpoint handles a request in fix mode (fix instructions as
\* system message, current code and instruction as user message) exactly
\* when the fix operation issued it; the requests of generate, and only
\* they, are handled in initial mode.
C20_ModeMatchesOperation ==
  \A i \in 1..Len(requests) :
    LET r == requests[i]
    IN IF r.kind = "fix"
         THEN ConversationMessages(r)
                = << Message("system", FixInstructions),
                     Message("user", <<"Current code:">> \o r.currentCode
                                        \o <<"User request:">> \o r.prompt) >>
         ELSE ConversationMessages(r)
                = << Message("system", SystemPrompt),
                     Message("user", r.prompt) >>

\* What a check that extracted errorMessage decides when it reads the
\* state as it is at the moment it fires.
DecidesNow(errorMessage) ==
  /\ CheckGuard(Closure(Snap))
  /\ NewError(Closure(Snap), errorMessage)
  /\ AutoFixGuard(Closure(Snap))

\* C21: every error check, delayed or interval, decides on the state that
\* is current when it fires: it dispatches a fix exactly when, in that
\* state, nothing is generating or fixing, the budget is not used up and
\* the message it extracted is not empty and is not the recorded one.
C21_ChecksReadCurrentState ==
  [][ ev'.op \in Checks => (ev'.dispatched <=> DecidesNow(ev'.msg)) ]_vars

\* The last message of the transcript is an assistant message that holds
\* the code.
TranscriptHoldsCode ==
  /\ messages # <<>>
  /\ messages[Len(messages)] = Message("assistant", generatedCode)

\* C22: when a generate or a fix completes successfully and leaves nothing
\* in flight, the last message of the transcript is an assistant message
\* whose content is the code; and this stays so, while nothing is in flight,
\* until start over.
C22_TranscriptMatchesCode ==
  [][ /\ ((\E i \in 1..Len(requests) : Completes(i)) /\ requests' = <<>>)
           => TranscriptHoldsCode'
      /\ (/\ requests = <<>> /\ requests' = <<>>
          /\ TranscriptHoldsCode /\ ev'.op # "startOver")
           => TranscriptHoldsCode' ]_vars

\* The session as start over leaves it, no prompt submitted since: no code,
\* no transcript, no attempt counted.
SessionEmpty ==
  generatedCode = Empty /\ messages = <<>> /\ autoFixAttempts = 0

\* C23: once the session is empty it stays empty until a prompt is
\* submitted: no other step makes the code non-empty, appends to the
\* transcript, counts an attempt or dispatches a fix request.
C23_StaysEmpty ==
  [][ (SessionEmpty /\ ~StartsGenerate)
        => (SessionEmpty' /\ ~DispatchesFix) ]_vars

====
